---------------------------- MODULE Spec2Model ----------------------------
(***************************************************************************)
(* mdcal: markdown event list -> iCal file and HTML page with tag filter.  *)
(* Python strings are modelled as sequences of one-character strings, so   *)
(* that strip / split / replace / startswith / regex matches are computed  *)
(* character by character as the interpreter computes them.                *)
(***************************************************************************)
EXTENDS Integers, Sequences, FiniteSets

VARIABLES
    content,        \* parse_markdown: the text read from the input file
    pc,             \* position in main(): start, parsed, ical_done, done, aborted
    events,         \* main(): the list returned by parse_markdown
    ics_file,       \* the .ics output file (NotWritten until generate_ical writes it)
    html_file,      \* the .html output file (NotWritten until generate_html writes it)
    date_str,       \* parse_date: its argument
    date_result,    \* parse_date: what the call produced
    text,           \* escape_ical_text: its argument
    escaped,        \* escape_ical_text: its return value
    currentFilter,  \* page script: let currentFilter
    hidden,         \* page DOM: indices of the .event cards carrying class "hidden"
    active,         \* page DOM: indices of the .filter-tag chips carrying class "active"
    clicks          \* the tags clicked so far on the page, oldest first

vars == <<content, pc, events, ics_file, html_file, date_str, date_result,
          text, escaped, currentFilter, hidden, active, clicks>>

----------------------------------------------------------------------------
(* Bounds of the model *)

MaxLines == 4
MaxPieces == 3
MaxTextLen == 4
MaxEvents == 3
MaxCards == 2
MaxClicks == 3

----------------------------------------------------------------------------
(* Python str primitives over character sequences *)

Digits == <<"0", "1", "2", "3", "4", "5", "6", "7", "8", "9">>

Letters == {"a", "b", "c", "d", "e", "f", "g", "h", "i", "j", "k", "l", "m",
            "n", "o", "p", "q", "r", "s", "t", "u", "v", "w", "x", "y", "z",
            "A", "B", "C", "D", "E", "F", "G", "H", "I", "J", "K", "L", "M",
            "N", "O", "P", "Q", "R", "S", "T", "U", "V", "W", "X", "Y", "Z"}

IsDigit(c) == \E k \in 1..10 : Digits[k] = c

DigitVal(c) == (CHOOSE k \in 1..10 : Digits[k] = c) - 1

\* str.strip() / regex \s : the whitespace characters
IsSpace(c) == c \in {" ", "\t", "\n", "\r"}

RECURSIVE lstrip(_)
lstrip(s) ==
    IF s # <<>> /\ IsSpace(Head(s)) THEN lstrip(Tail(s)) ELSE s

RECURSIVE rstrip(_)
rstrip(s) ==
    IF s # <<>> /\ IsSpace(s[Len(s)]) THEN rstrip(SubSeq(s, 1, Len(s) - 1)) ELSE s

strip(s) == rstrip(lstrip(s))

\* str.lstrip(ch): drop every leading occurrence of the character ch
RECURSIVE lstrip_char(_, _)
lstrip_char(s, ch) ==
    IF s # <<>> /\ Head(s) = ch THEN lstrip_char(Tail(s), ch) ELSE s

startswith(s, prefix) ==
    /\ Len(s) >= Len(prefix)
    /\ SubSeq(s, 1, Len(prefix)) = prefix

\* ch in s
contains(s, ch) == \E k \in 1..Len(s) : s[k] = ch

\* str.split(sep) for a one-character separator: every occurrence splits
RECURSIVE split_from(_, _, _, _)
split_from(s, sep, k, cur) ==
    IF k > Len(s) THEN <<cur>>
    ELSE IF s[k] = sep THEN <<cur>> \o split_from(s, sep, k + 1, <<>>)
    ELSE split_from(s, sep, k + 1, Append(cur, s[k]))

split(s, sep) == split_from(s, sep, 1, <<>>)

\* sep.join(parts)
RECURSIVE join(_, _)
join(sep, parts) ==
    IF parts = <<>> THEN <<>>
    ELSE IF Len(parts) = 1 THEN parts[1]
    ELSE parts[1] \o sep \o join(sep, Tail(parts))

\* str.replace(old, new): non-overlapping occurrences, left to right
RECURSIVE replace(_, _, _)
replace(s, old, new) ==
    IF s = <<>> THEN <<>>
    ELSE IF startswith(s, old)
         THEN new \o replace(SubSeq(s, Len(old) + 1, Len(s)), old, new)
    ELSE <<Head(s)>> \o replace(Tail(s), old, new)

----------------------------------------------------------------------------
(* datetime: dates as [y, m, d]; None as a record no date equals *)

None == [y |-> 0, m |-> 0, d |-> 0]

is_leap(y) == (y % 4 = 0) /\ ((y % 100 # 0) \/ (y % 400 = 0))

days_in_month(y, m) ==
    IF m = 2 THEN (IF is_leap(y) THEN 29 ELSE 28)
    ELSE IF m \in {4, 6, 9, 11} THEN 30 ELSE 31

\* datetime + timedelta(days=1); OverflowError past 31.12.9999 (datetime.MAXYEAR)
OverflowError == [y |-> 10000, m |-> 0, d |-> 0]

\* day + 1 without carrying into the month or the year
add_one_day_no_carry(dt) == [dt EXCEPT !.d = dt.d + 1]

add_one_day(dt) ==
    IF dt.d < days_in_month(dt.y, dt.m) THEN [dt EXCEPT !.d = dt.d + 1]
    ELSE IF dt.m < 12 THEN [y |-> dt.y, m |-> dt.m + 1, d |-> 1]
    ELSE IF dt.y < 9999 THEN [y |-> dt.y + 1, m |-> 1, d |-> 1]
    ELSE OverflowError

\* key=lambda e: e.start_date : datetime comparison
date_lt(a, b) ==
    \/ a.y < b.y
    \/ a.y = b.y /\ a.m < b.m
    \/ a.y = b.y /\ a.m = b.m /\ a.d < b.d

two_digits(n) == <<Digits[(n \div 10) + 1], Digits[(n % 10) + 1]>>

\* strftime('%Y%m%d') (years of four digits)
strftime_Ymd(dt) ==
    <<Digits[(dt.y \div 1000) + 1], Digits[((dt.y \div 100) % 10) + 1],
      Digits[((dt.y \div 10) % 10) + 1], Digits[(dt.y % 10) + 1]>>
    \o two_digits(dt.m) \o two_digits(dt.d)

\* strftime('%d.%m.%Y')
strftime_dmY(dt) ==
    two_digits(dt.d) \o <<".">> \o two_digits(dt.m) \o <<".">>
    \o SubSeq(strftime_Ymd(dt), 1, 4)

\* the %d directive of strptime: 3[0-1]|[1-2]\d|0[1-9]|[1-9]
match_d(p) ==
    \/ Len(p) = 2 /\ p[1] = "3" /\ p[2] \in {"0", "1"}
    \/ Len(p) = 2 /\ p[1] \in {"1", "2"} /\ IsDigit(p[2])
    \/ Len(p) = 2 /\ p[1] = "0" /\ IsDigit(p[2]) /\ p[2] # "0"
    \/ Len(p) = 1 /\ IsDigit(p[1]) /\ p[1] # "0"

\* the %m directive of strptime: 1[0-2]|0[1-9]|[1-9]
match_m(p) ==
    \/ Len(p) = 2 /\ p[1] = "1" /\ p[2] \in {"0", "1", "2"}
    \/ Len(p) = 2 /\ p[1] = "0" /\ IsDigit(p[2]) /\ p[2] # "0"
    \/ Len(p) = 1 /\ IsDigit(p[1]) /\ p[1] # "0"

\* the %Y directive of strptime: \d\d\d\d
match_Y(p) == Len(p) = 4 /\ \A k \in 1..4 : IsDigit(p[k])

RECURSIVE int_of(_)
int_of(p) ==
    IF p = <<>> THEN 0
    ELSE 10 * int_of(SubSeq(p, 1, Len(p) - 1)) + DigitVal(p[Len(p)])

\* datetime.strptime(s, '%d.%m.%Y'): [ok |-> FALSE] stands for ValueError
strptime(s) ==
    LET parts == split(s, ".")
        bad == [ok |-> FALSE, date |-> None]
    IN  IF Len(parts) # 3 THEN bad
        ELSE IF ~(match_d(parts[1]) /\ match_m(parts[2]) /\ match_Y(parts[3])) THEN bad
        ELSE LET dt == [y |-> int_of(parts[3]), m |-> int_of(parts[2]),
                        d |-> int_of(parts[1])]
             IN  IF dt.y < 1 \/ dt.d > days_in_month(dt.y, dt.m) THEN bad
                 ELSE [ok |-> TRUE, date |-> dt]

----------------------------------------------------------------------------
(* parse_date *)

\* str.find(ch) from index k on, 1-based; 0 when absent
RECURSIVE find(_, _, _)
find(s, ch, k) ==
    IF k > Len(s) THEN 0 ELSE IF s[k] = ch THEN k ELSE find(s, ch, k + 1)

parse_date(date_str_arg) ==
    LET s == strip(date_str_arg)
        failed == [ok |-> FALSE, start |-> None, end |-> None]
    IN  IF contains(s, "-")
        THEN LET parts == split(s, "-")
                 start_date == strptime(strip(parts[1]))
                 end_date == strptime(strip(parts[2]))
             IN  IF start_date.ok /\ end_date.ok
                 THEN [ok |-> TRUE, start |-> start_date.date, end |-> end_date.date]
                 ELSE failed
        ELSE LET date == strptime(s)
             IN  IF date.ok
                 THEN [ok |-> TRUE, start |-> date.date, end |-> None]
                 ELSE failed

----------------------------------------------------------------------------
(* is_heading, is_tag_line, parse_tags *)

\* re.match(r'^#+\s', line.strip())
is_heading(line) ==
    LET stripped == strip(line)
        rest == lstrip_char(stripped, "#")
    IN  /\ stripped # <<>>
        /\ Head(stripped) = "#"
        /\ rest # <<>>
        /\ IsSpace(Head(rest))

\* [a-zA-Z0-9_-]
IsTagChar(c) == c \in Letters \/ IsDigit(c) \/ c \in {"_", "-"}

\* re.match(r'^#[a-zA-Z0-9_-]', line)
is_tag_line(line) ==
    /\ Len(line) >= 2
    /\ line[1] = "#"
    /\ IsTagChar(line[2])

\* the last index of the run of tag characters that starts at k
RECURSIVE tag_end(_, _)
tag_end(line, k) ==
    IF k + 1 <= Len(line) /\ IsTagChar(line[k + 1]) THEN tag_end(line, k + 1) ELSE k

\* re.findall(r'#([a-zA-Z0-9_-]+)', line), scanning from index k
RECURSIVE findall_tags(_, _)
findall_tags(line, k) ==
    IF k > Len(line) THEN <<>>
    ELSE IF line[k] = "#" /\ k + 1 <= Len(line) /\ IsTagChar(line[k + 1])
         THEN LET e == tag_end(line, k + 1)
              IN  <<SubSeq(line, k + 1, e)>> \o findall_tags(line, e + 1)
    ELSE findall_tags(line, k + 1)

parse_tags(line) == findall_tags(line, 1)

----------------------------------------------------------------------------
(* parse_markdown *)

Event(title, start_date, end_date, description, link, tags) ==
    [title |-> title, start_date |-> start_date, end_date |-> end_date,
     description |-> description, link |-> link, tags |-> tags]

http_prefix == <<"h", "t", "t", "p", ":", "/", "/">>
https_prefix == <<"h", "t", "t", "p", "s", ":", "/", "/">>

\* the blank-line loop stopping one line early: while i < len(lines) - 1 ...
RECURSIVE skip_blank_short(_, _)
skip_blank_short(lines, i) ==
    IF i < Len(lines) /\ strip(lines[i]) = <<>> THEN skip_blank_short(lines, i + 1) ELSE i

\* while i < len(lines) and not lines[i].strip(): i += 1
RECURSIVE skip_blank(_, _)
skip_blank(lines, i) ==
    IF i <= Len(lines) /\ strip(lines[i]) = <<>> THEN skip_blank(lines, i + 1) ELSE i

\* while i < len(lines) and not is_heading(lines[i]): i += 1
RECURSIVE skip_body(_, _)
skip_body(lines, i) ==
    IF i <= Len(lines) /\ ~is_heading(lines[i]) THEN skip_body(lines, i + 1) ELSE i

\* the chain with the description branch tried before the tag branch
RECURSIVE separate_description_first(_, _, _)
separate_description_first(content_lines, k, acc) ==
    IF k > Len(content_lines) THEN acc
    ELSE LET content_line == content_lines[k]
         IN  IF startswith(content_line, http_prefix)
                \/ startswith(content_line, https_prefix)
             THEN separate_description_first(content_lines, k + 1,
                                             [acc EXCEPT !.link = content_line])
             ELSE IF content_line # <<>>
             THEN separate_description_first(content_lines, k + 1,
                           [acc EXCEPT !.description =
                               (IF @ # <<>> THEN @ \o <<"\n">> ELSE @) \o content_line])
             ELSE separate_description_first(content_lines, k + 1, acc)

\* for content_line in content_lines: the if / elif / elif chain, from line k on
RECURSIVE separate(_, _, _)
separate(content_lines, k, acc) ==
    IF k > Len(content_lines) THEN acc
    ELSE LET content_line == content_lines[k]
         IN  IF startswith(content_line, http_prefix)
                \/ startswith(content_line, https_prefix)
             THEN separate(content_lines, k + 1, [acc EXCEPT !.link = content_line])
             ELSE IF content_line # <<>> /\ is_tag_line(content_line)
             THEN separate(content_lines, k + 1,
                           [acc EXCEPT !.tags = @ \o parse_tags(content_line)])
             ELSE IF content_line # <<>>
             THEN separate(content_lines, k + 1,
                           [acc EXCEPT !.description =
                               (IF @ # <<>> THEN @ \o <<"\n">> ELSE @) \o content_line])
             ELSE separate(content_lines, k + 1, acc)

\* events.insert(0, event) in place of events.append(event)
prepend_event(evts, event) == <<event>> \o evts

\* events.append(event)
append_event(evts, event) == Append(evts, event)

\* the while loop of parse_markdown from cursor i (1-based) on.  ok = FALSE stands
\* for the ValueError of parse_date leaving the function; heads records, for each
\* appended event, the index of its heading line.
RECURSIVE parse_loop(_, _, _, _)
parse_loop(lines, i, evts, heads) ==
    IF i > Len(lines) THEN [ok |-> TRUE, events |-> evts, heads |-> heads]
    ELSE LET line == strip(lines[i])
         IN  IF is_heading(line)
             THEN LET title == strip(lstrip_char(line, "#"))
                      j == skip_blank(lines, i + 1)
                  IN  IF j > Len(lines)
                      THEN [ok |-> TRUE, events |-> evts, heads |-> heads]
                      ELSE LET date_line == strip(lines[j])
                               dates == parse_date(date_line)
                               e == skip_body(lines, j + 1)
                               content_lines == [k \in 1..(e - j - 1) |-> strip(lines[j + k])]
                               parts == separate(content_lines, 1,
                                            [tags |-> <<>>, description |-> <<>>, link |-> <<>>])
                               event == Event(title, dates.start, dates.end,
                                              strip(parts.description), parts.link, parts.tags)
                           IN  IF ~dates.ok
                               THEN [ok |-> FALSE, events |-> evts, heads |-> heads]
                               ELSE parse_loop(lines, e, append_event(evts, event),
                                               Append(heads, i))
             ELSE parse_loop(lines, i + 1, evts, heads)

parse_markdown(file_content) == parse_loop(split(file_content, "\n"), 1, <<>>, <<>>)

----------------------------------------------------------------------------
(* escape_ical_text, escape_html *)

\* the four replacements with the backslash replaced last
escape_ical_text_backslash_last(t) ==
    LET t1 == replace(t, <<",">>, <<"\\", ",">>)
        t2 == replace(t1, <<";">>, <<"\\", ";">>)
        t3 == replace(t2, <<"\n">>, <<"\\", "n">>)
        t4 == replace(t3, <<"\\">>, <<"\\", "\\">>)
    IN  t4

escape_ical_text(t) ==
    LET t1 == replace(t, <<"\\">>, <<"\\", "\\">>)
        t2 == replace(t1, <<",">>, <<"\\", ",">>)
        t3 == replace(t2, <<";">>, <<"\\", ";">>)
        t4 == replace(t3, <<"\n">>, <<"\\", "n">>)
    IN  t4

escape_html(t) ==
    LET t1 == replace(t, <<"&">>, <<"&", "a", "m", "p", ";">>)
        t2 == replace(t1, <<"<">>, <<"&", "l", "t", ";">>)
        t3 == replace(t2, <<">">>, <<"&", "g", "t", ";">>)
        t4 == replace(t3, <<"\"">>, <<"&", "q", "u", "o", "t", ";">>)
        t5 == replace(t4, <<"'">>, <<"&", "#", "3", "9", ";">>)
    IN  t5

----------------------------------------------------------------------------
(* sorted(events, key=lambda e: e.start_date) *)

\* place e before the elements of equal key (not stable)
RECURSIVE insert_before_equal(_, _)
insert_before_equal(sorted_seq, e) ==
    IF sorted_seq = <<>> THEN <<e>>
    ELSE IF ~date_lt(Head(sorted_seq).start_date, e.start_date) THEN <<e>> \o sorted_seq
    ELSE <<Head(sorted_seq)>> \o insert_before_equal(Tail(sorted_seq), e)

\* place e behind every element whose key is not greater than its own (stable)
RECURSIVE insert_by_start_date(_, _)
insert_by_start_date(sorted_seq, e) ==
    IF sorted_seq = <<>> THEN <<e>>
    ELSE IF date_lt(e.start_date, Head(sorted_seq).start_date) THEN <<e>> \o sorted_seq
    ELSE <<Head(sorted_seq)>> \o insert_by_start_date(Tail(sorted_seq), e)

RECURSIVE sorted_from(_, _, _)
sorted_from(evts, k, acc) ==
    IF k > Len(evts) THEN acc
    ELSE sorted_from(evts, k + 1, insert_by_start_date(acc, evts[k]))

sorted_by_start_date(evts) == sorted_from(evts, 1, <<>>)

----------------------------------------------------------------------------
(* generate_ical *)

NotWritten == [written |-> FALSE, vevents |-> <<>>]

\* the OverflowError of datetime + timedelta, where a DTEND text would stand
Raised == <<"OverflowError">>

\* a property line that the VEVENT block does not contain
Absent == <<"absent">>

mdcal_suffix == <<"@", "m", "d", "c", "a", "l">>

map_escape_ical(tags) == [k \in 1..Len(tags) |-> escape_ical_text(tags[k])]

\* the body of the loop over sorted_events: the property lines of one VEVENT
\* (DTSTAMP, the wall-clock time of the run, is left out)
vevent(event) ==
    LET end_date_ical == IF event.end_date # None
                         THEN add_one_day(event.end_date)
                         ELSE add_one_day(event.start_date)
        link_part == <<"L", "i", "n", "k", ":", " ">> \o event.link
        description_parts ==
            (IF event.description # <<>> THEN <<event.description>> ELSE <<>>)
            \o (IF event.link # <<>> THEN <<link_part>> ELSE <<>>)
    IN  [uid |-> strftime_Ymd(event.start_date) \o <<"-">>
                 \o replace(event.title, <<" ">>, <<"-">>) \o mdcal_suffix,
         dtstart |-> strftime_Ymd(event.start_date),
         dtend |-> IF end_date_ical = OverflowError THEN Raised
                   ELSE strftime_Ymd(end_date_ical),
         summary |-> escape_ical_text(event.title),
         categories |-> IF event.tags # <<>>
                        THEN join(<<",">>, map_escape_ical(event.tags))
                        ELSE Absent,
         description |-> IF description_parts # <<>>
                         THEN escape_ical_text(join(<<"\\", "n">>, description_parts))
                         ELSE Absent,
         url |-> IF event.link # <<>> THEN event.link ELSE Absent]

\* ok = FALSE: the OverflowError of timedelta arithmetic leaves the function before
\* the file is opened.  events is the caller's list after the call.
generate_ical(evts) ==
    LET sorted_events == sorted_by_start_date(evts)
        blocks == [k \in 1..Len(sorted_events) |-> vevent(sorted_events[k])]
    IN  [ok |-> \A k \in 1..Len(blocks) : blocks[k].dtend # Raised,
         file |-> [written |-> TRUE, vevents |-> blocks],
         events |-> evts]

----------------------------------------------------------------------------
(* generate_html *)

\* code points in ascending order, for the characters a tag can hold
AsciiOrder ==
    <<"-", "0", "1", "2", "3", "4", "5", "6", "7", "8", "9",
      "A", "B", "C", "D", "E", "F", "G", "H", "I", "J", "K", "L", "M",
      "N", "O", "P", "Q", "R", "S", "T", "U", "V", "W", "X", "Y", "Z", "_",
      "a", "b", "c", "d", "e", "f", "g", "h", "i", "j", "k", "l", "m",
      "n", "o", "p", "q", "r", "s", "t", "u", "v", "w", "x", "y", "z">>

ord(c) == CHOOSE k \in 1..Len(AsciiOrder) : AsciiOrder[k] = c

\* str < str
RECURSIVE str_lt(_, _)
str_lt(a, b) ==
    IF b = <<>> THEN FALSE
    ELSE IF a = <<>> THEN TRUE
    ELSE IF Head(a) = Head(b) THEN str_lt(Tail(a), Tail(b))
    ELSE ord(Head(a)) < ord(Head(b))

\* sorted(set_of_strings)
RECURSIVE sorted_set(_)
sorted_set(S) ==
    IF S = {} THEN <<>>
    ELSE LET least == CHOOSE a \in S : \A b \in S \ {a} : str_lt(a, b)
         IN  <<least>> \o sorted_set(S \ {least})

all_tags_of(sorted_events) ==
    sorted_set(UNION {{sorted_events[k].tags[n] : n \in 1..Len(sorted_events[k].tags)}
                      : k \in 1..Len(sorted_events)})

map_escape_html(tags) == [k \in 1..Len(tags) |-> escape_html(tags[k])]

\* one <div class="event"> card: its attributes and text nodes as written to the file
event_html(event) ==
    LET tags_attr == IF event.tags # <<>> THEN join(<<",">>, event.tags) ELSE <<>>
        date_text == IF event.end_date # None
                     THEN strftime_dmY(event.start_date) \o <<" ", "-", " ">>
                          \o strftime_dmY(event.end_date)
                     ELSE strftime_dmY(event.start_date)
    IN  [data_tags |-> escape_html(tags_attr),
         title |-> escape_html(event.title),
         date |-> escape_html(date_text),
         tags |-> map_escape_html(event.tags),
         description |-> IF event.description # <<>>
                         THEN escape_html(event.description) ELSE Absent,
         link |-> IF event.link # <<>> THEN escape_html(event.link) ELSE Absent]

\* has_ical_filename: main() passes ical_filename only when it wrote the .ics file
generate_html(evts, has_ical_filename) ==
    LET sorted_events == sorted_by_start_date(evts)
        all_tags == all_tags_of(sorted_events)
    IN  [file |-> [written |-> TRUE,
                   download_link |-> has_ical_filename,
                   filter_tags |-> map_escape_html(all_tags),
                   cards |-> [k \in 1..Len(sorted_events) |-> event_html(sorted_events[k])]],
         events |-> evts]

----------------------------------------------------------------------------
(* the page: what the browser makes of the file, and the embedded script *)

\* attribute values reach the DOM with their character references decoded
html_decode(t) ==
    LET t1 == replace(t, <<"&", "#", "3", "9", ";">>, <<"'">>)
        t2 == replace(t1, <<"&", "q", "u", "o", "t", ";">>, <<"\"">>)
        t3 == replace(t2, <<"&", "g", "t", ";">>, <<">">>)
        t4 == replace(t3, <<"&", "l", "t", ";">>, <<"<">>)
        t5 == replace(t4, <<"&", "a", "m", "p", ";">>, <<"&">>)
    IN  t5

\* let currentFilter = null
Null == <<"null">>

\* Array.prototype.includes
includes(arr, x) == \E k \in 1..Len(arr) : arr[k] = x

clearFilter ==
    [currentFilter |-> Null, hidden |-> {}, active |-> {}]

\* filterByTag comparing the whole data-tags attribute with the tag (no split)
filterByTag_no_split(page, dom, tag) ==
    IF dom.currentFilter = tag THEN clearFilter
    ELSE [currentFilter |-> tag,
          hidden |-> {k \in 1..Len(page.cards) :
                        LET tags == html_decode(page.cards[k].data_tags)
                        IN  ~(tags # <<>> /\ tags = tag)},
          active |-> {k \in 1..Len(page.filter_tags) :
                        html_decode(page.filter_tags[k]) = tag}]

\* page: the parsed file; dom: [currentFilter, hidden, active]
filterByTag(page, dom, tag) ==
    IF dom.currentFilter = tag THEN clearFilter
    ELSE [currentFilter |-> tag,
          hidden |-> {k \in 1..Len(page.cards) :
                        LET tags == html_decode(page.cards[k].data_tags)
                        IN  ~(tags # <<>> /\ includes(split(tags, ","), tag))},
          active |-> {k \in 1..Len(page.filter_tags) :
                        html_decode(page.filter_tags[k]) = tag}]

\* the arguments of the onclick="filterByTag('...')" handlers the page holds
clickable_tags(page) ==
    {html_decode(page.filter_tags[k]) : k \in 1..Len(page.filter_tags)}
    \cup UNION {{html_decode(page.cards[k].tags[n]) : n \in 1..Len(page.cards[k].tags)}
                : k \in 1..Len(page.cards)}

----------------------------------------------------------------------------
(* Inputs *)

L_headA == <<"#", " ", "A">>
L_headB == <<" ", "#", "#", " ", "B">>
L_hash == <<"#", " ">>
L_blank == <<>>
L_date == <<"0", "1", ".", "0", "3", ".", "2", "0", "2", "4">>
L_range == <<"0", "1", ".", "0", "3", ".", "2", "0", "2", "4", " ", "-", " ", "0", "3", ".", "0", "3", ".", "2", "0", "2", "4">>
L_text == <<"J", "o", "i", "n", " ", "u", "s">>
L_tags == <<"#", "a", " ", "#", "b", "-", "c">>
L_link == <<"h", "t", "t", "p", "s", ":", "/", "/", "e", ".", "x">>

LinePool == {L_headA, L_headB, L_hash, L_blank, L_date, L_range, L_text, L_tags, L_link}

\* Scenario A of the specification
ScenarioA == <<<<"#", " ", "L", "a", "u", "n", "c", "h">>, L_date, L_text,
               <<"#", "s", "p", "a", "c", "e", " ", "#", "r", "o", "c", "k", "e", "t">>,
               <<"h", "t", "t", "p", "s", ":", "/", "/", "e", "x", "a", "m", "p", "l", "e", ".", "c", "o", "m">>>>

\* the files: up to MaxLines lines of the pool, joined by newlines, and Scenario A
Documents ==
    {join(<<"\n">>, lines) :
        lines \in UNION {[1..n -> LinePool] : n \in 1..MaxLines} \cup {ScenarioA}}

HtmlNotWritten ==
    [written |-> FALSE, download_link |-> FALSE, filter_tags |-> <<>>, cards |-> <<>>]

NoDates == [ok |-> FALSE, start |-> None, end |-> None]

\* the variables of main() before it runs
MainIdle ==
    /\ content = <<>>
    /\ events = <<>>
    /\ ics_file = NotWritten
    /\ html_file = HtmlNotWritten

DateIdle == date_str = <<>> /\ date_result = NoDates

EscapeIdle == text = <<>> /\ escaped = <<>>

PageIdle == currentFilter = Null /\ hidden = {} /\ active = {} /\ clicks = <<>>

----------------------------------------------------------------------------
(* main() *)

\* the documents of the whole-run specification: a heading, a date line, a line
\* that is no date, a blank line
MainLinePool == {L_headA, L_date, L_text, L_blank}

MainDocuments ==
    {join(<<"\n">>, lines) : lines \in UNION {[1..n -> MainLinePool] : n \in 1..MaxLines}}

Init ==
    /\ content \in MainDocuments
    /\ pc = "start"
    /\ events = <<>>
    /\ ics_file = NotWritten
    /\ html_file = HtmlNotWritten
    /\ DateIdle /\ EscapeIdle /\ PageIdle

\* the parse step with the exception caught and the events found so far kept
MainParse_keep_going ==
    /\ pc = "start"
    /\ pc' = "parsed"
    /\ events' = parse_markdown(content).events
    /\ UNCHANGED <<content, ics_file, html_file, date_str, date_result, text, escaped,
                   currentFilter, hidden, active, clicks>>

\* events = parse_markdown(args.input); an exception ends the run
MainParse ==
    /\ pc = "start"
    /\ LET r == parse_markdown(content)
       IN  IF r.ok
           THEN pc' = "parsed" /\ events' = r.events
           ELSE pc' = "aborted" /\ events' = events
    /\ UNCHANGED <<content, ics_file, html_file, date_str, date_result, text, escaped,
                   currentFilter, hidden, active, clicks>>

\* if not args.html_only: generate_ical(events, ical_path)
MainIcal ==
    /\ pc = "parsed"
    /\ \E html_only \in BOOLEAN :
          IF html_only
          THEN pc' = "ical_done" /\ UNCHANGED <<events, ics_file>>
          ELSE LET r == generate_ical(events)
               IN  /\ events' = r.events
                   /\ IF r.ok
                      THEN pc' = "ical_done" /\ ics_file' = r.file
                      ELSE pc' = "aborted" /\ ics_file' = ics_file
    /\ UNCHANGED <<content, html_file, date_str, date_result, text, escaped,
                   currentFilter, hidden, active, clicks>>

\* if not args.ical_only: generate_html(events, html_path, ical_filename, calendar_title)
MainHtml ==
    /\ pc = "ical_done"
    /\ pc' = "done"
    /\ \E ical_only \in BOOLEAN :
          IF ical_only
          THEN UNCHANGED <<events, html_file>>
          ELSE LET r == generate_html(events, ics_file.written)
               IN  events' = r.events /\ html_file' = r.file
    /\ UNCHANGED <<content, ics_file, date_str, date_result, text, escaped,
                   currentFilter, hidden, active, clicks>>

Next == MainParse \/ MainIcal \/ MainHtml

Spec == Init /\ [][Next]_vars

----------------------------------------------------------------------------
(* parse_markdown called on every document *)

InitParse ==
    /\ content \in Documents
    /\ pc = "start"
    /\ events = <<>>
    /\ ics_file = NotWritten
    /\ html_file = HtmlNotWritten
    /\ DateIdle /\ EscapeIdle /\ PageIdle

NextParse == MainParse

SpecParse == InitParse /\ [][NextParse]_vars

----------------------------------------------------------------------------
(* parse_date called on date lines *)

DateTokens == {<<"0", "1", ".", "0", "3", ".", "2", "0", "2", "4">>, <<"0", "3", ".", "0", "3", ".", "2", "0", "2", "4">>, <<"1", ".", "3", ".", "2", "0", "2", "4">>, <<"3", "1", ".", "0", "2", ".", "2", "0", "2", "4">>, <<"x">>, <<>>}

DateSeparators == {<<"-">>, <<" ", "-", " ">>, <<" ">>}

\* a token, then up to n - 1 times a separator and a token
RECURSIVE DateStrings(_)
DateStrings(n) ==
    IF n <= 1 THEN DateTokens
    ELSE LET shorter == DateStrings(n - 1)
         IN  shorter \cup {a \o sep \o b : a \in shorter, sep \in DateSeparators,
                                            b \in DateTokens}

InitDate ==
    /\ date_str \in DateStrings(MaxPieces)
    /\ date_result = NoDates
    /\ pc = "call"
    /\ MainIdle /\ EscapeIdle /\ PageIdle

CallParseDate ==
    /\ pc = "call"
    /\ date_result' = parse_date(date_str)
    /\ pc' = IF date_result'.ok THEN "returned" ELSE "raised"
    /\ UNCHANGED <<content, events, ics_file, html_file, date_str, text, escaped,
                   currentFilter, hidden, active, clicks>>

NextDate == CallParseDate

SpecDate == InitDate /\ [][NextDate]_vars

----------------------------------------------------------------------------
(* escape_ical_text called on texts *)

TextChars == {"\\", ",", ";", "\n", "A", "n"}

ScenarioD == <<"A", ",", " ", "B", ";", " ", "C">>

Texts == UNION {[1..n -> TextChars] : n \in 0..MaxTextLen} \cup {ScenarioD}

InitEscape ==
    /\ text \in Texts
    /\ escaped = <<>>
    /\ pc = "call"
    /\ MainIdle /\ DateIdle /\ PageIdle

CallEscape ==
    /\ pc = "call"
    /\ escaped' = escape_ical_text(text)
    /\ pc' = "returned"
    /\ UNCHANGED <<content, events, ics_file, html_file, date_str, date_result, text,
                   currentFilter, hidden, active, clicks>>

NextEscape == CallEscape

SpecEscape == InitEscape /\ [][NextEscape]_vars

----------------------------------------------------------------------------
(* the renderers called on event lists *)

Date(y, m, d) == [y |-> y, m |-> m, d |-> d]

\* dates at month, leap-day, year and MAXYEAR boundaries
BoundaryDates ==
    {Date(2023, 2, 28), Date(2023, 12, 31), Date(2024, 1, 1), Date(2024, 2, 28),
     Date(2024, 2, 29), Date(2024, 3, 1), Date(2024, 4, 30), Date(2024, 5, 15),
     Date(1900, 2, 28), Date(2000, 2, 29), Date(9999, 12, 31)}

SortDates == {Date(2023, 12, 31), Date(2024, 3, 1), Date(2024, 3, 3)}

SingleEvents ==
    {<<Event(<<"A">>, s, e, <<>>, <<>>, <<>>)>> :
        s \in BoundaryDates, e \in BoundaryDates \cup {None}}

PlainEvents ==
    {Event(t, s, None, <<>>, <<>>, <<>>) : t \in {<<"A">>, <<"B">>}, s \in SortDates}

InitRender ==
    /\ events \in SingleEvents \cup UNION {[1..n -> PlainEvents] : n \in 0..MaxEvents}
    /\ pc = "parsed"
    /\ content = <<>>
    /\ ics_file = NotWritten
    /\ html_file = HtmlNotWritten
    /\ DateIdle /\ EscapeIdle /\ PageIdle

NextRender == MainIcal \/ MainHtml

SpecRender == InitRender /\ [][NextRender]_vars

----------------------------------------------------------------------------
(* the generated page, clicked *)

TagLists ==
    {<<>>, <<<<"a">>>>, <<<<"b">>>>, <<<<"a", "b">>>>, <<<<"a">>, <<"b">>>>,
     <<<<"b">>, <<"a", "b">>>>}

TaggedEvents ==
    {Event(<<"A">>, s, None, <<>>, <<>>, tags) :
        s \in {Date(2024, 3, 1)}, tags \in TagLists}

InitPage ==
    /\ events \in UNION {[1..n -> TaggedEvents] : n \in 1..MaxCards}
    /\ pc = "parsed"
    /\ content = <<>>
    /\ ics_file = NotWritten
    /\ html_file = HtmlNotWritten
    /\ DateIdle /\ EscapeIdle /\ PageIdle

\* a click on a chip of the filter bar or of a card: onclick="filterByTag('tag')"
ClickTag ==
    /\ html_file.written
    /\ Len(clicks) < MaxClicks
    /\ \E tag \in clickable_tags(html_file) :
          LET dom == filterByTag(html_file,
                                 [currentFilter |-> currentFilter, hidden |-> hidden,
                                  active |-> active], tag)
          IN  /\ currentFilter' = dom.currentFilter
              /\ hidden' = dom.hidden
              /\ active' = dom.active
              /\ clicks' = Append(clicks, tag)
    /\ UNCHANGED <<content, pc, events, ics_file, html_file, date_str, date_result,
                   text, escaped>>

NextPage == MainIcal \/ MainHtml \/ ClickTag

SpecPage == InitPage /\ [][NextPage]_vars

----------------------------------------------------------------------------
(* What the claims about parse_markdown speak of, stated over the file's lines *)

Min(S) == CHOOSE a \in S : \A b \in S : a <= b

Max(S) == CHOOSE a \in S : \A b \in S : a >= b

IsBlank(line) == strip(line) = <<>>

\* main() holds the list parse_markdown returned
Parsed == pc \in {"parsed", "ical_done", "done"}

HeadingIndices(lines) == {i \in 1..Len(lines) : is_heading(lines[i])}

\* the index of the first heading line behind line i, or one past the last line
NextHeading(lines, H, i) ==
    LET later == {j \in H : j > i}
    IN  IF later = {} THEN Len(lines) + 1 ELSE Min(later)

\* the index of the first non-blank line behind line i, or one past the last line
NextNonBlank(lines, i) ==
    LET later == {j \in (i + 1)..Len(lines) : ~IsBlank(lines[j])}
    IN  IF later = {} THEN Len(lines) + 1 ELSE Min(later)

\* heading i is followed, before the next heading or the end, by a non-blank line
\* that parses as a date
FollowedByDate(lines, H, i) ==
    \E j \in (i + 1)..(NextHeading(lines, H, i) - 1) :
        ~IsBlank(lines[j]) /\ parse_date(strip(lines[j])).ok

HeadingTitle(line) == strip(lstrip_char(strip(line), "#"))

\* the elements of a set of indices in source order
RECURSIVE Ascending(_)
Ascending(S) == IF S = {} THEN <<>> ELSE <<Min(S)>> \o Ascending(S \ {Min(S)})

DatedHeadings(lines, H) == Ascending({i \in H : FollowedByDate(lines, H, i)})

\* C1: for a document that parses, the titles of the emitted events are, in order,
\* the titles of the headings that are followed by a date line before the next
\* heading or the end of input: one event for each of them and no other event.
C1_OneEventPerDatedHeading ==
    Parsed =>
        LET lines == split(content, "\n")
            dated == DatedHeadings(lines, HeadingIndices(lines))
        IN  /\ Len(events) = Len(dated)
            /\ \A k \in 1..Len(events) : events[k].title = HeadingTitle(lines[dated[k]])

C1_Witness ==
    /\ Parsed
    /\ Len(events) = 2
    /\ events[1].title # events[2].title
    /\ Cardinality(HeadingIndices(split(content, "\n"))) = 2

\* some heading's date line (the first non-blank line behind it) fails to parse
SomeDateLineFails(lines) ==
    \E i \in HeadingIndices(lines) :
        LET j == NextNonBlank(lines, i)
        IN  j <= Len(lines) /\ ~parse_date(strip(lines[j])).ok

\* C3: when the date line of any heading fails to parse, the run aborts: main()
\* receives no events, and neither the .ics nor the .html file is written.
C3_BadDateLineAbortsRun ==
    SomeDateLineFails(split(content, "\n")) =>
        /\ pc \in {"start", "aborted"}
        /\ events = <<>>
        /\ ~ics_file.written
        /\ ~html_file.written

\* the run aborted although an earlier heading had already given an event
C3_Witness ==
    /\ pc = "aborted"
    /\ SomeDateLineFails(split(content, "\n"))
    /\ parse_markdown(content).events # <<>>

\* the last heading line is followed by blank lines only
DanglingHeading(lines, H) ==
    /\ H # {}
    /\ NextNonBlank(lines, Max(H)) > Len(lines)

\* the heading before the dangling one has that heading where its date line should be
DateLineIsDanglingHeading(lines, H) ==
    \E i \in H : i < Max(H) /\ NextNonBlank(lines, i) = Max(H)

\* the events of the lines that precede the last heading
BeforeLastHeading(lines, H) == parse_loop(SubSeq(lines, 1, Max(H) - 1), 1, <<>>, <<>>)

\* C4: a heading followed only by blank lines up to the end of input raises no
\* error and gives no event; the events of the preceding headings are returned
\* unchanged and in order, and none when it is the only heading.
C4_DanglingHeadingDropped ==
    pc # "start" =>
        LET lines == split(content, "\n")
            H == HeadingIndices(lines)
            before == BeforeLastHeading(lines, H)
        IN  (/\ DanglingHeading(lines, H)
             /\ ~DateLineIsDanglingHeading(lines, H)
             /\ before.ok) =>
                /\ Parsed
                /\ events = before.events
                /\ (Cardinality(H) = 1 => events = <<>>)

C4_Witness ==
    LET lines == split(content, "\n")
        H == HeadingIndices(lines)
    IN  /\ Parsed
        /\ DanglingHeading(lines, H)
        /\ Len(events) = 1
        /\ Cardinality(H) = 2

\* the trimmed lines between the date line of heading i and the next heading
BodyOf(lines, H, i) ==
    LET first == NextNonBlank(lines, i) + 1
        last == NextHeading(lines, H, i) - 1
    IN  [k \in 1..(last - first + 1) |-> strip(lines[first + k - 1])]

IsLinkLine(line) == startswith(line, http_prefix) \/ startswith(line, https_prefix)

IsTagLine(line) == ~IsLinkLine(line) /\ is_tag_line(line)

IsDescriptionLine(line) == ~IsLinkLine(line) /\ ~is_tag_line(line) /\ line # <<>>

RECURSIVE TagsOfLines(_)
TagsOfLines(tag_lines) ==
    IF tag_lines = <<>> THEN <<>>
    ELSE parse_tags(Head(tag_lines)) \o TagsOfLines(Tail(tag_lines))

\* C9: each body line falls into exactly one of link / tag line / description /
\* empty, by first match in that order: the link is the last link line, the tags
\* are those of the tag lines in order, the description is the other non-empty
\* lines joined by single newlines.
C9_BodyLinesClassifiedOnce ==
    Parsed =>
        LET lines == split(content, "\n")
            H == HeadingIndices(lines)
            dated == DatedHeadings(lines, H)
        IN  \A k \in 1..Len(events) :
                LET body == BodyOf(lines, H, dated[k])
                    links == SelectSeq(body, IsLinkLine)
                IN  /\ events[k].link = IF links = <<>> THEN <<>> ELSE links[Len(links)]
                    /\ events[k].tags = TagsOfLines(SelectSeq(body, IsTagLine))
                    /\ events[k].description =
                           join(<<"\n">>, SelectSeq(body, IsDescriptionLine))

\* Scenario A has been parsed
C9_Witness ==
    /\ Parsed
    /\ content = join(<<"\n">>, ScenarioA)
    /\ events = <<Event(<<"L", "a", "u", "n", "c", "h">>, [y |-> 2024, m |-> 3, d |-> 1], None, L_text,
                        ScenarioA[5], <<<<"s", "p", "a", "c", "e">>, <<"r", "o", "c", "k", "e", "t">>>>)>>

\* the line begins with one or more '#' followed by a whitespace character
BeginsWithHashesThenSpace(line) ==
    LET rest == lstrip_char(line, "#")
    IN  /\ line # <<>>
        /\ Head(line) = "#"
        /\ rest # <<>>
        /\ IsSpace(Head(rest))

\* C10: every line that begins with one or more '#' followed by whitespace, a
\* line with only whitespace behind the '#' included, is a heading line to the
\* extractor: it starts an event record (titled by the stripped line, possibly
\* empty) and is never skipped or taken into a body.  The record is dropped only
\* when nothing but blank lines follow the heading.
C10_HashSpaceLineIsHeading ==
    Parsed =>
        LET lines == split(content, "\n")
            heads == parse_markdown(content).heads
        IN  \A i \in 1..Len(lines) :
                BeginsWithHashesThenSpace(lines[i]) =>
                    \/ \E k \in 1..Len(heads) :
                          heads[k] = i /\ events[k].title = HeadingTitle(lines[i])
                    \/ NextNonBlank(lines, i) > Len(lines)

----------------------------------------------------------------------------
(* What the claim about parse_date speaks of *)

\* C2: on a line holding a hyphen, parse_date takes everything before the first
\* hyphen and everything behind it, trims both and parses each with the day.month.year
\* pattern; it returns (start, end) exactly when both are dates and fails otherwise.
\* Nothing behind the first hyphen is ignored.
C2_SplitAtFirstHyphenOnly ==
    LET s == strip(date_str)
        h == find(s, "-", 1)
        before == strptime(strip(SubSeq(s, 1, h - 1)))
        after == strptime(strip(SubSeq(s, h + 1, Len(s))))
    IN  (pc # "call" /\ h > 0) =>
            IF before.ok /\ after.ok
            THEN /\ pc = "returned"
                 /\ date_result.start = before.date
                 /\ date_result.end = after.date
            ELSE pc = "raised"

----------------------------------------------------------------------------
(* What the claim about escape_ical_text speaks of *)

EscapeOfChar(c) ==
    IF c = "\\" THEN <<"\\", "\\">>
    ELSE IF c = "," THEN <<"\\", ",">>
    ELSE IF c = ";" THEN <<"\\", ";">>
    ELSE IF c = "\n" THEN <<"\\", "n">>
    ELSE <<c>>

RECURSIVE SinglePassEscape(_)
SinglePassEscape(t) ==
    IF t = <<>> THEN <<>> ELSE EscapeOfChar(Head(t)) \o SinglePassEscape(Tail(t))

\* C7: escape_ical_text equals the one-pass mapping of each character (backslash
\* doubled; comma, semicolon and newline each replaced by a backslash and the
\* character, 'n' for newline); no backslash it adds is doubled again.
C7_EscapeIsSinglePass ==
    pc = "returned" => escaped = SinglePassEscape(text)

\* Scenario D, and a text whose backslash stands before a comma
C7_Witness ==
    /\ pc = "returned"
    /\ text = ScenarioD
    /\ escaped = <<"A", "\\", ",", " ", "B", "\\", ";", " ", "C">>

----------------------------------------------------------------------------
(* What the claims about the renderers speak of *)

\* a YYYYMMDD text read back as a date
ReadYmd(t) == Date(int_of(SubSeq(t, 1, 4)), int_of(SubSeq(t, 5, 6)), int_of(SubSeq(t, 7, 8)))

\* the days of a year that precede its month m
DaysBeforeMonth(y, m) ==
    <<0, 31, 59, 90, 120, 151, 181, 212, 243, 273, 304, 334>>[m]
    + (IF m > 2 /\ is_leap(y) THEN 1 ELSE 0)

\* the number of the day, counting 01.01.0001 as day 1
Ordinal(dt) ==
    365 * (dt.y - 1) + ((dt.y - 1) \div 4) - ((dt.y - 1) \div 100) + ((dt.y - 1) \div 400)
    + DaysBeforeMonth(dt.y, dt.m) + dt.d

\* a day that the calendar has
IsCalendarDate(dt) ==
    /\ dt.y \in 1..9999
    /\ dt.m \in 1..12
    /\ dt.d >= 1
    /\ dt.d <= (IF dt.m = 12 THEN 31
                ELSE DaysBeforeMonth(dt.y, dt.m + 1) - DaysBeforeMonth(dt.y, dt.m))

\* the VEVENT block has the dates the claim gives the event
HasDatesOf(block, event) ==
    /\ ReadYmd(block.dtstart) = event.start_date
    /\ IsCalendarDate(ReadYmd(block.dtend))
    /\ Ordinal(ReadYmd(block.dtend)) =
           Ordinal(IF event.end_date # None THEN event.end_date ELSE event.start_date) + 1

\* C5: in the written .ics file every event has a VEVENT whose DTSTART is its
\* start_date and whose DTEND is the day after its end_date, or after its
\* start_date when it has no end_date; and every VEVENT is that of an event.
C5_DtendIsDayAfterLastDay ==
    ics_file.written =>
        /\ Len(ics_file.vevents) = Len(events)
        /\ \A k \in 1..Len(events) :
              \E n \in 1..Len(ics_file.vevents) :
                  /\ HasDatesOf(ics_file.vevents[n], events[k])
                  /\ ics_file.vevents[n].summary = events[k].title
        /\ \A n \in 1..Len(ics_file.vevents) :
              \E k \in 1..Len(events) :
                  /\ HasDatesOf(ics_file.vevents[n], events[k])
                  /\ ics_file.vevents[n].summary = events[k].title

\* a range that ends on the last day of a year, months after it began
C5_Witness ==
    /\ ics_file.written
    /\ Len(events) = 1
    /\ events[1].start_date = Date(2023, 2, 28)
    /\ events[1].end_date = Date(2023, 12, 31)
    /\ ics_file.vevents[1].dtend = <<"2", "0", "2", "4", "0", "1", "0", "1">>

IndexPermutations(n) ==
    {p \in [1..n -> 1..n] : \A a, b \in 1..n : p[a] = p[b] => a = b}

\* out[k] shows evts[p[k]] for a permutation p that puts earlier start dates first
\* and keeps events of equal start date in the order of evts
StablySorted(out, evts, Shows(_, _)) ==
    /\ Len(out) = Len(evts)
    /\ \E p \in IndexPermutations(Len(evts)) :
          /\ \A k \in 1..Len(out) : Shows(out[k], evts[p[k]])
          /\ \A k, n \in 1..Len(out) :
                k < n =>
                    \/ date_lt(evts[p[k]].start_date, evts[p[n]].start_date)
                    \/ /\ evts[p[k]].start_date = evts[p[n]].start_date
                       /\ p[k] < p[n]

BlockShows(block, event) ==
    /\ block.summary = event.title
    /\ ReadYmd(block.dtstart) = event.start_date

\* a DD.MM.YYYY text read back as a date
ReadDmy(t) == Date(int_of(SubSeq(t, 7, 10)), int_of(SubSeq(t, 4, 5)), int_of(SubSeq(t, 1, 2)))

CardShows(card, event) ==
    /\ card.title = event.title
    /\ ReadDmy(SubSeq(card.date, 1, 10)) = event.start_date

\* C6: when generate_ical or generate_html writes its file, the events stand in
\* it in ascending start_date order, those of equal start_date in the order of
\* the list the renderer was given; and no step of the run changes that list.
C6_StableOrderInBothOutputs ==
    [][/\ (ics_file'.written /\ ~ics_file.written) =>
              StablySorted(ics_file'.vevents, events, BlockShows)
       /\ (html_file'.written /\ ~html_file.written) =>
              StablySorted(html_file'.cards, events, CardShows)
       /\ pc \in {"parsed", "ical_done"} => events' = events]_vars

\* both files written from a list that is out of order and has a tie
C6_Witness ==
    /\ ics_file.written
    /\ html_file.written
    /\ Len(events) = 3
    /\ date_lt(events[2].start_date, events[1].start_date)
    /\ events[2].start_date = events[3].start_date
    /\ events[2].title # events[3].title
    /\ ics_file.vevents[1].summary = events[2].title
    /\ html_file.cards[2].title = events[3].title

----------------------------------------------------------------------------
(* What the claim about the page's filter speaks of *)

\* the filter after the clicks: a click on the active tag clears it, any other
\* click makes the clicked tag the filter
RECURSIVE FilterAfter(_)
FilterAfter(clicked) ==
    IF clicked = <<>> THEN Null
    ELSE LET earlier == FilterAfter(SubSeq(clicked, 1, Len(clicked) - 1))
             last == clicked[Len(clicked)]
         IN  IF earlier = last THEN Null ELSE last

\* the tags shown on card k
CardHasTag(k, tag) ==
    \E n \in 1..Len(html_file.cards[k].tags) : html_file.cards[k].tags[n] = tag

\* C8: after any clicks the filter is the last clicked tag, or none when that click
\* hit the active tag; a card is hidden exactly when a filter is active and the
\* card does not carry its tag; a chip of the filter bar is highlighted exactly
\* when its tag is the filter.
C8_FilterFollowsClicks ==
    html_file.written =>
        LET filter == FilterAfter(clicks)
        IN  /\ currentFilter = filter
            /\ hidden = {k \in 1..Len(html_file.cards) :
                            filter # Null /\ ~CardHasTag(k, filter)}
            /\ active = {k \in 1..Len(html_file.filter_tags) :
                            html_file.filter_tags[k] = filter}

\* a filter set, cleared by a second click, and another set that hides one card
\* of two while the other, carrying two tags, stays
C8_Witness ==
    /\ Len(clicks) = 3
    /\ clicks[1] = clicks[2]
    /\ currentFilter = clicks[3]
    /\ Len(html_file.cards) = 2
    /\ Cardinality(hidden) = 1
    /\ \E k \in 1..2 : k \notin hidden /\ Len(html_file.cards[k].tags) = 2
    /\ Cardinality(active) = 1

============================================================================
